---------------------------- MODULE Spec2Model ----------------------------
(***************************************************************************)
(* A model of the heartbeat DNS monitor (package dns): the endpoint        *)
(* parser parseDNSSvr, the configuration validators                        *)
(* responseParameters.Validate and Config.ValidateDNS, the response        *)
(* validator checkDNSResult, the factory create and the per-endpoint job   *)
(* (createPingFactory / execPing / execRequest).                           *)
(*                                                                         *)
(* Go strings are sequences of one-character strings, so that lower-casing, *)
(* splitting and URL parsing are computed character by character.          *)
(***************************************************************************)
EXTENDS Integers, Sequences, FiniteSets, TLC

(***************************************************************************)
(* Bounds of the model.                                                    *)
(***************************************************************************)
MaxServers == 2      \* longest configured dns_servers list
MaxAnswers == 2      \* longest answer section handed to checkDNSResult
MaxTimeout == 2      \* largest configured timeout, in clock ticks

(***************************************************************************)
(* Characters and strings.                                                 *)
(***************************************************************************)
Upper == <<"A", "B", "C", "D", "E", "F", "G", "H", "I", "J", "K", "L", "M",
           "N", "O", "P", "Q", "R", "S", "T", "U", "V", "W", "X", "Y", "Z">>
Lower == <<"a", "b", "c", "d", "e", "f", "g", "h", "i", "j", "k", "l", "m",
           "n", "o", "p", "q", "r", "s", "t", "u", "v", "w", "x", "y", "z">>
Digits == <<"0", "1", "2", "3", "4", "5", "6", "7", "8", "9">>

Range(f) == {f[i] : i \in DOMAIN f}

IsUpper(c) == c \in Range(Upper)
IsLetter(c) == c \in Range(Upper) \cup Range(Lower)
IsDigit(c) == c \in Range(Digits)

\* unicode.ToLower on one character
LowerChar(c) ==
    IF IsUpper(c) THEN Lower[CHOOSE i \in DOMAIN Upper : Upper[i] = c] ELSE c

\* Op applied to the value of x, x being evaluated once
With(x, Op(_)) == CHOOSE r \in {Op(v) : v \in {x}} : TRUE

\* strings.ToLower
RECURSIVE ToLowerSeq(_)
ToLowerSeq(s) ==
    IF s = <<>> THEN <<>>
    ELSE <<LowerChar(Head(s))>> \o With(Tail(s), ToLowerSeq)

ToLower(s) == With(s, ToLowerSeq)

\* strings.HasPrefix
HasPrefix(s, p) == Len(s) >= Len(p) /\ SubSeq(s, 1, Len(p)) = p

\* strings.Contains for a one-character needle
ContainsChar(s, c) == \E i \in DOMAIN s : s[i] = c

\* strings.IndexByte, 1-based; 0 when absent
IndexCharOf(s, c) ==
    IF ContainsChar(s, c)
    THEN CHOOSE i \in DOMAIN s : s[i] = c /\ \A k \in 1..(i - 1) : s[k] # c
    ELSE 0

IndexChar(s, c) == With(s, LAMBDA v : IndexCharOf(v, c))

\* strings.LastIndexByte, 1-based; 0 when absent
LastIndexCharOf(s, c) ==
    IF ContainsChar(s, c)
    THEN CHOOSE i \in DOMAIN s : s[i] = c /\ \A k \in (i + 1)..Len(s) : s[k] # c
    ELSE 0

LastIndexChar(s, c) == With(s, LAMBDA v : LastIndexCharOf(v, c))

\* strings.Split(s, sep) for a one-character separator
RECURSIVE SplitSeq(_, _)
SplitSeq(s, c) ==
    With(IndexChar(s, c), LAMBDA i :
        IF i = 0 THEN <<s>>
        ELSE <<SubSeq(s, 1, i - 1)>>
             \o With(SubSeq(s, i + 1, Len(s)), LAMBDA rest : SplitSeq(rest, c)))

Split(s, c) == With(s, LAMBDA v : SplitSeq(v, c))

\* strings.Join(parts, sep)
RECURSIVE JoinSeq(_, _)
JoinSeq(parts, sep) ==
    IF parts = <<>> THEN <<>>
    ELSE IF Len(parts) = 1 THEN parts[1]
    ELSE parts[1] \o sep \o With(Tail(parts), LAMBDA rest : JoinSeq(rest, sep))

Join(parts, sep) == With(parts, LAMBDA v : JoinSeq(v, sep))

DigitVal(c) == (CHOOSE i \in DOMAIN Digits : Digits[i] = c) - 1

\* strconv.Atoi on a string of decimal digits (the only strings u.Port()
\* returns); the int64 overflow error needs more than 18 digits
RECURSIVE AtoiFrom(_, _)
AtoiFrom(s, acc) ==
    IF s = <<>> THEN acc
    ELSE With(<<Tail(s), 10 * acc + DigitVal(Head(s))>>,
              LAMBDA n : AtoiFrom(n[1], n[2]))

Atoi(s) == With(s, LAMBDA v : AtoiFrom(v, 0))

\* the digits of the largest int (64 bits)
MaxIntDigits == <<"9", "2", "2", "3", "3", "7", "2", "0", "3", "6", "8", "5",
                  "4", "7", "7", "5", "8", "0", "7">>

\* a string of digits without its leading zeros
RECURSIVE StripZeros(_)
StripZeros(s) ==
    IF s # <<>> /\ Head(s) = "0" THEN With(Tail(s), StripZeros) ELSE s

\* digit strings of the same length: a denotes a larger number than b
DigitsGreater(a, b) ==
    \E i \in DOMAIN a :
        /\ DigitVal(a[i]) > DigitVal(b[i])
        /\ \A k \in 1..(i - 1) : a[k] = b[k]

\* strconv.Atoi of a string of digits returns a range error: the number does
\* not fit an int
AtoiOutOfRange(s) ==
    With(StripZeros(s), LAMBDA t :
        \/ Len(t) > Len(MaxIntDigits)
        \/ Len(t) = Len(MaxIntDigits) /\ DigitsGreater(t, MaxIntDigits))

\* fmt.Sprintf("%d", n) for n >= 0
RECURSIVE ItoaNat(_)
ItoaNat(n) ==
    IF n < 10 THEN <<Digits[n + 1]>>
    ELSE With(n \div 10, ItoaNat) \o <<Digits[(n % 10) + 1]>>

Itoa(n) == With(n, ItoaNat)

(***************************************************************************)
(* net/url: url.Parse, URL.Hostname and URL.Port, for strings over         *)
(* letters, digits and the characters . - : / (no userinfo, query,         *)
(* fragment, escapes or bracketed IPv6 literals).                          *)
(***************************************************************************)
NoURL == [err |-> TRUE, Scheme |-> <<>>, Opaque |-> <<>>, Host |-> <<>>, Path |-> <<>>]

MkURL(scheme, opaque, host, path) ==
    [err |-> FALSE, Scheme |-> scheme, Opaque |-> opaque, Host |-> host, Path |-> path]

\* url.getScheme: scan for "scheme:"; a scheme starts with a letter
RECURSIVE getSchemeFrom(_, _)
getSchemeFrom(s, i) ==
    IF i > Len(s) THEN [err |-> FALSE, scheme |-> <<>>, rest |-> s]
    ELSE IF IsLetter(s[i]) THEN With(i + 1, LAMBDA k : getSchemeFrom(s, k))
    ELSE IF IsDigit(s[i]) \/ s[i] \in {"+", "-", "."}
         THEN IF i = 1 THEN [err |-> FALSE, scheme |-> <<>>, rest |-> s]
              ELSE With(i + 1, LAMBDA k : getSchemeFrom(s, k))
    ELSE IF s[i] = ":"
         THEN IF i = 1 THEN [err |-> TRUE, scheme |-> <<>>, rest |-> <<>>]
              ELSE [err |-> FALSE, scheme |-> SubSeq(s, 1, i - 1),
                    rest |-> SubSeq(s, i + 1, Len(s))]
    ELSE [err |-> FALSE, scheme |-> <<>>, rest |-> s]

getScheme(s) == With(s, LAMBDA v : getSchemeFrom(v, 1))

\* url.validOptionalPort: "" or ":" followed by digits only
validOptionalPort(port) ==
    With(port, LAMBDA p :
        \/ p = <<>>
        \/ /\ p[1] = ":"
           /\ \A i \in 2..Len(p) : IsDigit(p[i]))

\* url.parseHost: the text after the last colon must be a valid port
parseHostOK(host) ==
    With(LastIndexChar(host, ":"), LAMBDA i :
        i = 0 \/ validOptionalPort(SubSeq(host, i, Len(host))))

\* url.Parse after the scheme: "//" starts the authority, which ends at the
\* next "/"
parseAuthority(scheme, after) ==
    With(IndexChar(after, "/"), LAMBDA cut :
        With(IF cut = 0 THEN after ELSE SubSeq(after, 1, cut - 1), LAMBDA authority :
            IF parseHostOK(authority)
            THEN MkURL(scheme, <<>>, authority,
                       IF cut = 0 THEN <<>> ELSE SubSeq(after, cut, Len(after)))
            ELSE NoURL))

\* url.Parse without a scheme and without a leading "/": the first path
\* segment cannot contain a colon
parseRootless(rest) ==
    With(IndexChar(rest, "/"), LAMBDA cut :
        IF ContainsChar(IF cut = 0 THEN rest ELSE SubSeq(rest, 1, cut - 1), ":")
        THEN NoURL
        ELSE MkURL(<<>>, <<>>, <<>>, rest))

\* url.Parse after url.getScheme
parseAfterScheme(scheme, rest) ==
    IF ~HasPrefix(rest, <<"/">>)
    THEN IF scheme # <<>> THEN MkURL(scheme, rest, <<>>, <<>>)
         ELSE parseRootless(rest)
    ELSE IF HasPrefix(rest, <<"/", "/">>)
            /\ (scheme # <<>> \/ ~HasPrefix(rest, <<"/", "/", "/">>))
    THEN With(SubSeq(rest, 3, Len(rest)), LAMBDA after : parseAuthority(scheme, after))
    ELSE MkURL(scheme, <<>>, <<>>, rest)

\* url.Parse
urlParse(rawURL) ==
    With(getScheme(rawURL), LAMBDA gs :
        IF gs.err THEN NoURL
        ELSE With(ToLower(gs.scheme), LAMBDA scheme : parseAfterScheme(scheme, gs.rest)))

\* url.splitHostPort
splitHostPort(hostPort) ==
    With(hostPort, LAMBDA hp :
        With(LastIndexChar(hp, ":"), LAMBDA colon :
            IF colon # 0 /\ validOptionalPort(SubSeq(hp, colon, Len(hp)))
            THEN [host |-> SubSeq(hp, 1, colon - 1),
                  port |-> SubSeq(hp, colon + 1, Len(hp))]
            ELSE [host |-> hp, port |-> <<>>]))

urlHostname(u) == splitHostPort(u.Host).host
urlPort(u) == splitHostPort(u.Host).port

(***************************************************************************)
(* Strings of the configuration and of the tests.                          *)
(***************************************************************************)
S_udp == <<"u", "d", "p">>
S_tcp == <<"t", "c", "p">>
S_tcptls == <<"t", "c", "p", "-", "t", "l", "s">>
UdpPrefix == <<"u", "d", "p", ":", "/", "/">>

T_a == <<"a">>
T_aaaa == <<"a", "a", "a", "a">>
T_cname == <<"c", "n", "a", "m", "e">>
T_txt == <<"t", "x", "t">>

(***************************************************************************)
(* parseDNSSvr.  The result is the pair (DNSSvr, error) of the Go function: *)
(* err is "nil" on success, and ds is whatever the function had filled in  *)
(* when it returned.                                                       *)
(***************************************************************************)
DefaultPort == 53

ZeroSvr == [U |-> NoURL, URL |-> <<>>, Protocol |-> <<>>, Address |-> <<>>, Port |-> 0]

\* the result keeping u.Host in place of the address string that was parsed
parseFieldsBareURL(addr, u) ==
    IF u.err THEN [ds |-> ZeroSvr, err |-> "parse"]
    ELSE IF ToLower(u.Scheme) \notin {S_udp, S_tcp}
    THEN [ds |-> ZeroSvr, err |-> "protocol"]
    ELSE IF urlHostname(u) = <<>>
    THEN [ds |-> [ZeroSvr EXCEPT !.Protocol = ToLower(u.Scheme)], err |-> "address"]
    ELSE [ds |-> [U |-> u,
                  URL |-> u.Host,
                  Protocol |-> ToLower(u.Scheme),
                  Address |-> ToLower(urlHostname(u)),
                  Port |-> IF urlPort(u) # <<>> /\ ~AtoiOutOfRange(urlPort(u))
                           THEN Atoi(urlPort(u))
                           ELSE DefaultPort],
          err |-> "nil"]

\* the scheme switch, the address, the port and the URL of the result
parseFields(addr, u) ==
    IF u.err THEN [ds |-> ZeroSvr, err |-> "parse"]
    ELSE IF ToLower(u.Scheme) \notin {S_udp, S_tcp}
    THEN [ds |-> ZeroSvr, err |-> "protocol"]
    ELSE IF urlHostname(u) = <<>>
    THEN [ds |-> [ZeroSvr EXCEPT !.Protocol = ToLower(u.Scheme)], err |-> "address"]
    ELSE IF urlPort(u) # <<>> /\ AtoiOutOfRange(urlPort(u))
    THEN [ds |-> [ZeroSvr EXCEPT !.Protocol = ToLower(u.Scheme),
                                 !.Address = ToLower(urlHostname(u)),
                                 !.Port = DefaultPort],
          err |-> "port"]
    ELSE [ds |-> [U |-> u,
                  URL |-> addr,
                  Protocol |-> ToLower(u.Scheme),
                  Address |-> ToLower(urlHostname(u)),
                  Port |-> With(urlPort(u), LAMBDA portStr :
                               IF portStr # <<>> THEN Atoi(portStr)
                               ELSE DefaultPort)],
          err |-> "nil"]

\* an empty u.Host left as it is
parseNoDefaultScheme(addr, u) == parseFields(addr, u)

\* no error but an empty u.Host: prepend udp:// and parse again
parseHostless(addr, u) ==
    IF u.err THEN [ds |-> ZeroSvr, err |-> "parse"]
    ELSE IF u.Host = <<>>
    THEN With(urlParse(ToLower(UdpPrefix \o addr)),
              LAMBDA u2 : parseFields(UdpPrefix \o addr, u2))
    ELSE parseFields(addr, u)

\* url.Parse failed: prepend udp:// and parse again
parseRetry(addr, u) ==
    IF u.err
    THEN With(urlParse(ToLower(UdpPrefix \o addr)),
              LAMBDA u2 : parseHostless(UdpPrefix \o addr, u2))
    ELSE parseHostless(addr, u)

parseDNSSvr(addr) ==
    With(addr, LAMBDA a :
        With(urlParse(ToLower(a)), LAMBDA u : parseRetry(a, u)))

(***************************************************************************)
(* Config.ValidateDNS and its helpers.                                     *)
(***************************************************************************)
MaxHostnameLen == 255
MaxLabelLen == 63

\* one field of a dotted-decimal IPv4 address: 1 to 3 digits, no leading
\* zero, at most 255
IPv4FieldOK(p) ==
    /\ p # <<>>
    /\ Len(p) <= 3
    /\ \A i \in DOMAIN p : IsDigit(p[i])
    /\ (Len(p) > 1 => p[1] # "0")
    /\ Atoi(p) <= 255

\* net.ParseIP(s) # nil, for a string without a colon (an IPv4 literal)
ParseIPOK(s) ==
    With(Split(s, "."), LAMBDA parts :
        /\ ~ContainsChar(s, ":")
        /\ Len(parts) = 4
        /\ \A i \in DOMAIN parts : IPv4FieldOK(parts[i]))

isAlphanumeric(s) ==
    \A i \in DOMAIN s : IsLetter(s[i]) \/ IsDigit(s[i]) \/ s[i] = "-"

isValidHostname(hostname) ==
    IF Len(hostname) > MaxHostnameLen THEN FALSE
    ELSE With(Split(hostname, "."), LAMBDA parts :
             \A i \in DOMAIN parts :
                 ~(Len(parts[i]) = 0 \/ Len(parts[i]) > MaxLabelLen
                   \/ ~isAlphanumeric(parts[i])))

NilError == [kind |-> "nil"]

\* the body of the loop of ValidateDNS for entry i, parsed as r
validateEntry(i, r) ==
    IF r.err # "nil"
    THEN [kind |-> r.err, entries |-> {i}]
    ELSE With(r.ds.Address, LAMBDA address :
             IF ~ParseIPOK(address) /\ ~isValidHostname(address)
             THEN [kind |-> "invalid DNS server", entries |-> {i}]
             ELSE NilError)

\* the loop of ValidateDNS from entry i on: it returns at the first entry
\* that fails, with that entry's error
RECURSIVE ValidateDNSFrom(_, _)
ValidateDNSFrom(servers, i) ==
    IF i > Len(servers) THEN NilError
    ELSE With(With(parseDNSSvr(servers[i]), LAMBDA r : validateEntry(i, r)),
              LAMBDA err :
                  IF err # NilError THEN err
                  ELSE With(i + 1, LAMBDA k : ValidateDNSFrom(servers, k)))

\* the loop stopping after the first entry: the entries behind it are not
\* parsed
ValidateDNSFirstOnly(servers) ==
    IF servers = <<>> THEN NilError
    ELSE With(parseDNSSvr(servers[1]), LAMBDA r : validateEntry(1, r))

ValidateDNS(servers) == With(servers, LAMBDA v : ValidateDNSFrom(v, 1))

(***************************************************************************)
(* responseParameters.Validate                                             *)
(***************************************************************************)
\* the switch without strings.ToLower
ValidateCaseSensitive(RecordType) ==
    IF RecordType \in {T_a, T_aaaa, T_cname, T_txt}
    THEN NilError
    ELSE [kind |-> "unknown record type", value |-> RecordType]

\* the switch with a case for the empty string
ValidateUnsetOK(RecordType) ==
    IF ToLower(RecordType) \in {<<>>, T_a, T_aaaa, T_cname, T_txt}
    THEN NilError
    ELSE [kind |-> "unknown record type", value |-> RecordType]

Validate(RecordType) ==
    IF ToLower(RecordType) \in {T_a, T_aaaa, T_cname, T_txt}
    THEN NilError
    ELSE [kind |-> "unknown record type", value |-> RecordType]

(***************************************************************************)
(* Resource records of a dns.Msg.  rrtype is the Go type of the record:    *)
(* dns.A, dns.AAAA, dns.CNAME, dns.TXT, or another one such as dns.MX.     *)
(* rdata is a tuple of address bytes for A, the rendered address for AAAA, *)
(* the target for CNAME and the list of strings for TXT.                   *)
(***************************************************************************)
\* the decimal rendering of each byte of an address
RECURSIVE ItoaEach(_)
ItoaEach(ip) ==
    IF ip = <<>> THEN <<>> ELSE <<Itoa(Head(ip))>> \o With(Tail(ip), ItoaEach)

\* net.IP.String() of a 4-byte address
IPv4String(ip) == With(ip, LAMBDA b : Join(With(b, ItoaEach), <<".">>))

\* the value the type switch extracts
rrValue(a) ==
    CASE a.rrtype = "A" -> IPv4String(a.rdata)
      [] a.rrtype = "AAAA" -> a.rdata
      [] a.rrtype = "CNAME" -> a.rdata
      [] a.rrtype = "TXT" -> Join(a.rdata, <<" ">>)
      [] OTHER -> <<>>

\* the record_type the type switch sets
rrRecordType(a) ==
    CASE a.rrtype = "A" -> T_a
      [] a.rrtype = "AAAA" -> T_aaaa
      [] a.rrtype = "CNAME" -> T_cname
      [] a.rrtype = "TXT" -> T_txt
      [] OTHER -> <<>>

\* the cases of the type switch other than default
rrSupported(a) == a.rrtype \in {"A", "AAAA", "CNAME", "TXT"}

(***************************************************************************)
(* checkDNSResult: the loop over r.Answer, from answer i on.               *)
(***************************************************************************)
\* the comparisons of the loop body for one answer of a supported type: the
\* error it returns, or nil when the loop goes on
checkAnswer(value, record_type, eValue, eType) ==
    IF eValue # <<>> /\ eValue # ToLower(value)
    THEN [kind |-> "value", actual |-> ToLower(value), expected |-> eValue]
    ELSE IF eType # <<>> /\ eType # record_type
    THEN [kind |-> "type", actual |-> record_type, expected |-> eType]
    ELSE NilError

RECURSIVE checkDNSResultFrom(_, _, _, _)
checkDNSResultFrom(answer, i, eValue, eType) ==
    IF i > Len(answer) THEN NilError
    ELSE IF ~rrSupported(answer[i])
    THEN With(i + 1, LAMBDA k : checkDNSResultFrom(answer, k, eValue, eType))
    ELSE With(With(rrValue(answer[i]), LAMBDA value :
                  checkAnswer(value, rrRecordType(answer[i]), eValue, eType)),
              LAMBDA err :
                  IF err # NilError THEN err
                  ELSE With(i + 1, LAMBDA k :
                           checkDNSResultFrom(answer, k, eValue, eType)))

\* the loop keeping the outcome of the last comparison instead of returning
\* at the first mismatch
RECURSIVE checkDNSResultLast(_, _, _, _, _)
checkDNSResultLast(answer, i, eValue, eType, err) ==
    IF i > Len(answer) THEN err
    ELSE With(<<i + 1,
                IF ~rrSupported(answer[i]) THEN err
                ELSE With(rrValue(answer[i]), LAMBDA value :
                         checkAnswer(value, rrRecordType(answer[i]), eValue, eType))>>,
              LAMBDA n : checkDNSResultLast(answer, n[1], eValue, eType, n[2]))

checkDNSResultLastWins(answer, eValue, eType) ==
    With(<<answer, eValue, eType>>,
         LAMBDA a : checkDNSResultLast(a[1], 1, a[2], a[3], NilError))

\* an empty answer section failing an expectation
checkDNSResultNoAnswer(answer, eValue, eType) ==
    With(<<answer, eValue, eType>>, LAMBDA a :
        IF a[1] = <<>> /\ (a[2] # <<>> \/ a[3] # <<>>)
        THEN [kind |-> "value", actual |-> <<>>, expected |-> a[2]]
        ELSE checkDNSResultFrom(a[1], 1, a[2], a[3]))

checkDNSResult(answer, eValue, eType) ==
    With(<<answer, eValue, eType>>, LAMBDA a : checkDNSResultFrom(a[1], 1, a[2], a[3]))

(***************************************************************************)
(* execRequest: the decoding of r.Answer into DNSResponse.Answer.  Records *)
(* of other types are skipped; names and values are lower-cased.           *)
(***************************************************************************)
\* the loop keeping every record and the letter case of the values
RECURSIVE decodeKeepingAll(_)
decodeKeepingAll(answer) ==
    IF answer = <<>> THEN <<>>
    ELSE <<[Name |-> Head(answer).name,
            TTL |-> Head(answer).ttl,
            RRType |-> rrRecordType(Head(answer)),
            Value |-> rrValue(Head(answer))]>>
         \o With(Tail(answer), decodeKeepingAll)

RECURSIVE decodeFrom(_)
decodeFrom(answer) ==
    IF answer = <<>> THEN <<>>
    ELSE IF ~rrSupported(Head(answer)) THEN With(Tail(answer), decodeFrom)
    ELSE <<[Name |-> ToLower(Head(answer).name),
            TTL |-> Head(answer).ttl,
            RRType |-> rrRecordType(Head(answer)),
            Value |-> ToLower(rrValue(Head(answer)))]>>
         \o With(Tail(answer), decodeFrom)

decodeAnswers(answer) == With(answer, decodeFrom)

NilResponse == [nil |-> TRUE]

\* execRequest when client.ExchangeContext returned err # nil:
\* reason.IOFailed(ecserr.NewCouldNotConnectErr(Address, Port, err))
execRequestFailed(server, cause) ==
    [resp |-> NilResponse,
     errReason |-> [kind |-> "io",
                    err |-> [kind |-> "CouldNotConnect",
                             host |-> server.Address,
                             port |-> Itoa(server.Port),
                             cause |-> cause]]]

\* execRequest when client.ExchangeContext returned the message r
execRequestDecoded(server, r) ==
    [resp |-> [nil |-> FALSE,
               Answer |-> decodeAnswers(r),
               DNSServer |-> server.URL,
               TLS |-> [ServerName |-> <<>>]],
     errReason |-> NilError]

(***************************************************************************)
(* The event of one invocation: the fields put into it so far.  rtt holds  *)
(* the pairs <<name, duration>> of the dns.rtt.* fields.                   *)
(***************************************************************************)
Absent == [absent |-> TRUE]

EmptyEvent == [response |-> Absent, rtt |-> {}, tls |-> Absent]

\* execPing falling through to the fields of a completed exchange although
\* execRequest failed
execPingFallsThrough(event, req) ==
    [event |-> [event EXCEPT !.response = [server |-> <<>>, answers |-> <<>>],
                             !.rtt = @ \cup {<<"total", 0>>}],
     err |-> req.errReason.err]

\* execPing after execRequest failed: the ECS error is returned and the
\* event is left as it was
execPingFailed(event, req) ==
    [event |-> event, err |-> req.errReason.err]

\* the loop of execPing over resp.Answer
RECURSIVE answerFieldsFrom(_)
answerFieldsFrom(answer) ==
    IF answer = <<>> THEN <<>>
    ELSE <<[record_type |-> Head(answer).RRType,
            value |-> Head(answer).Value,
            name |-> Head(answer).Name]>> \o With(Tail(answer), answerFieldsFrom)

answerFields(answer) == With(answer, answerFieldsFrom)

\* execPing after execRequest succeeded: dns.response, the TLS fields when
\* resp.TLS.ServerName is set, and dns.rtt.total are merged into the event;
\* errReason, which is nil, is returned
execPingDone(event, req, start, end) ==
    [event |-> [event EXCEPT
                   !.response = [server |-> req.resp.DNSServer,
                                 answers |-> answerFields(req.resp.Answer)],
                   !.tls = IF req.resp.TLS.ServerName # <<>>
                           THEN [fields |-> {}]
                           ELSE @,
                   !.rtt = @ \cup {<<"total", end - start>>}],
     err |-> req.errReason]

\* the zero time.Time of the timestamps declared and never assigned
ZeroTime == [zero |-> TRUE]

\* the sub-phase RTT fields merged although their timestamps are not set
pingCallbackRTTUnset(event, end) ==
    [event EXCEPT !.rtt = @ \cup {<<"write_request", 0>>, <<"response_header", 0>>}]

\* the end of the callback of createPingFactory: the sub-phase RTT fields are
\* merged when their timestamps are set
pingCallbackRTT(event, end) ==
    LET writeStart == ZeroTime
        readStart == ZeroTime
    IN [event EXCEPT
           !.rtt = (@ \cup IF readStart # ZeroTime
                           THEN {<<"write_request", 0>>, <<"response_header", 0>>}
                           ELSE {})
                   \cup IF writeStart # ZeroTime
                        THEN {<<"validate", end>>, <<"content", end>>}
                        ELSE {}]

\* the dns.Client the callback builds
newClient(cfg, dnssvr) ==
    IF cfg.TLS # "none" /\ dnssvr.U.Scheme = S_tcp
    THEN [Net |-> S_tcptls, Timeout |-> cfg.Timeout, TLSConfig |-> TRUE]
    ELSE [Net |-> S_udp, Timeout |-> cfg.Timeout, TLSConfig |-> FALSE]

\* a context without a deadline
ctxNeverDone(elapsed, timeout) == FALSE

\* context.WithTimeout: the context of the exchange is done once the timeout
\* has elapsed
ctxDone(elapsed, timeout) == elapsed >= timeout

(***************************************************************************)
(* create: the factory.                                                    *)
(***************************************************************************)
NoPlugin == [state |-> "new", err |-> NilError, Jobs |-> <<>>, Endpoints |-> 0]

\* the loop of create over config.DNSServers: the error of parseDNSSvr is
\* discarded
RECURSIVE makeJobsFrom(_)
makeJobsFrom(servers) ==
    IF servers = <<>> THEN <<>>
    ELSE <<parseDNSSvr(Head(servers)).ds>> \o With(Tail(servers), makeJobsFrom)

makeJobs(servers) == With(servers, makeJobsFrom)

\* the smallest of a set of numbers
Min(S) == CHOOSE i \in S : \A k \in S : i <= k

\* create returning, with the error of ValidateDNS, the jobs of the entries
\* before the one that failed
createPartial(cfg, v) ==
    IF v.kind # "nil"
    THEN [state |-> "error",
          err |-> v,
          Jobs |-> makeJobs(SubSeq(cfg.DNSServers, 1, Min(v.entries) - 1)),
          Endpoints |-> Min(v.entries) - 1]
    ELSE IF cfg.TLS = "invalid"
    THEN [state |-> "error", err |-> [kind |-> "tls"], Jobs |-> <<>>, Endpoints |-> 0]
    ELSE IF cfg.Mode = "unusable" /\ cfg.DNSServers # <<>>
    THEN [state |-> "error", err |-> [kind |-> "job"], Jobs |-> <<>>, Endpoints |-> 0]
    ELSE [state |-> "ok",
          err |-> NilError,
          Jobs |-> makeJobs(cfg.DNSServers),
          Endpoints |-> Len(cfg.DNSServers)]

\* create once config.ValidateDNS() returned v: the TLS configuration is
\* loaded and one job is made per entry of config.DNSServers; makeJob fails
\* when monitors.MakeByHostJob refuses config.Mode
createValidated(cfg, v) ==
    IF v.kind # "nil"
    THEN [state |-> "error", err |-> v, Jobs |-> <<>>, Endpoints |-> 0]
    ELSE IF cfg.TLS = "invalid"
    THEN [state |-> "error", err |-> [kind |-> "tls"], Jobs |-> <<>>, Endpoints |-> 0]
    ELSE IF cfg.Mode = "unusable" /\ cfg.DNSServers # <<>>
    THEN [state |-> "error", err |-> [kind |-> "job"], Jobs |-> <<>>, Endpoints |-> 0]
    ELSE [state |-> "ok",
          err |-> NilError,
          Jobs |-> makeJobs(cfg.DNSServers),
          Endpoints |-> Len(cfg.DNSServers)]

create(cfg) ==
    With(ValidateDNS(cfg.DNSServers), LAMBDA v : createValidated(cfg, v))

(***************************************************************************)
(* Inputs of the model.                                                    *)
(***************************************************************************)
S_8888 == <<"8", ".", "8", ".", "8", ".", "8">>
S_8844 == <<"8", ".", "8", ".", "4", ".", "4">>
S_example == <<"e", "x", "a", "m", "p", "l", "e", ".", "c", "o", "m">>
S_invalid == <<"i", "n", "v", "a", "l", "i", "d", ".", ".", "h", "o", "s", "t", "n", "a", "m", "e">>
S_256 == <<"2", "5", "6", ".", "2", "5", "6", ".", "2", "5", "6", ".", "2", "5", "6">>
S_tcpurl == <<"t", "c", "p", ":", "/", "/", "d", "n", "s", ".", "e", "x", "a", "m", "p", "l", "e", ".", "c", "o", "m", ":", "5", "3", "5", "3">>
S_ftp == <<"f", "t", "p", ":", "/", "/", "x">>
S_hostabc == <<"h", "o", "s", "t", ":", "a", "b", "c">>
S_ipport == <<"8", ".", "8", ".", "8", ".", "8", ":", "5", "3">>
S_upper == <<"T", "C", "P", ":", "/", "/", "D", "n", "s", ".", "G", "o", "o", "g", "l", "e">>
S_alias == <<"a", "l", "i", "a", "s", ".", "e", "x", "a", "m", "p", "l", "e", ".", "c", "o", "m", ".">>
S_Alias == <<"A", "l", "i", "a", "s", ".", "E", "x", "a", "m", "p", "l", "e", ".", "c", "o", "m", ".">>
S_sampletext == <<"s", "a", "m", "p", "l", "e", " ", "t", "e", "x", "t">>
S_notexist == <<"n", "o", "t", "e", "x", "i", "s", "t">>
S_name == <<"e", "x", "a", "m", "p", "l", "e", ".", "c", "o", "m", ".">>
T_A == <<"A">>
T_CNAME == <<"C", "N", "A", "M", "E">>
T_invalid == <<"i", "n", "v", "a", "l", "i", "d">>
T_mx == <<"m", "x">>

RR(rrtype, rdata) == [rrtype |-> rrtype, name |-> S_name, ttl |-> 1, rdata |-> rdata]

\* sequences over S of length at most n
SeqsUpTo(S, n) == UNION {[1..k -> S] : k \in 0..n}

\* the dns_servers entries of the job model: an address, a tcp URL, and one
\* that ValidateDNS rejects
JobServers == {S_8888, S_upper, S_ftp}

\* the answer sections the responder of the job model sends
WireMsgs == {<<>>,
             <<RR("A", <<8, 8, 8, 8>>)>>,
             <<RR("A", <<8, 8, 4, 4>>)>>,
             <<RR("MX", <<>>), RR("CNAME", S_Alias)>>,
             <<RR("TXT", <<S_sampletext>>), RR("MX", <<>>), RR("A", <<8, 8, 4, 4>>)>>}

Configs ==
    [DNSServers : SeqsUpTo(JobServers, MaxServers) \ {<<>>},
     TLS : {"none", "valid", "invalid"},
     Mode : {"ip", "unusable"},
     Timeout : 1..MaxTimeout,
     Check : [Value : {<<>>, S_8888}, RecordType : {<<>>, T_a}]]

(***************************************************************************)
(* The state.                                                              *)
(*   config   the unpacked Config                                          *)
(*   plugin   what create returned ("new" before it ran)                   *)
(* and per job j (one per entry of plugin.Jobs):                           *)
(*   pc       idle, querying, decoding or reporting                        *)
(*   client   the dns.Client of the invocation                             *)
(*   elapsed  clock ticks since execRequest took start                     *)
(*   exch     what client.ExchangeContext returned: its error and message  *)
(*   event    the event of the invocation                                  *)
(*   ret      the error the invocation returns                             *)
(*   path     the phases the invocation went through                       *)
(* and for the specifications of the pure functions:                       *)
(*   call     the function called and its arguments                        *)
(*   result   what it returned                                             *)
(***************************************************************************)
VARIABLES config, plugin, pc, client, elapsed, exch, event, ret, path, call, result

vars == <<config, plugin, pc, client, elapsed, exch, event, ret, path, call, result>>
jobvars == <<pc, client, elapsed, exch, event, ret, path>>

JobIds == 1..MaxServers
Jobs == DOMAIN plugin.Jobs

NoClient == [Net |-> <<>>, Timeout |-> 0, TLSConfig |-> FALSE]
NoExchange == [err |-> "none", msg |-> <<>>]
NoCall == [fn |-> "none"]
NoResult == [done |-> FALSE]

JobsIdle ==
    /\ pc = [j \in JobIds |-> "idle"]
    /\ client = [j \in JobIds |-> NoClient]
    /\ elapsed = [j \in JobIds |-> 0]
    /\ exch = [j \in JobIds |-> NoExchange]
    /\ event = [j \in JobIds |-> EmptyEvent]
    /\ ret = [j \in JobIds |-> NilError]
    /\ path = [j \in JobIds |-> <<>>]

\* defaultConfig(), with the timeout of the transport settings
DefaultTimeout == 16

defaultConfig ==
    [DNSServers |-> <<>>, TLS |-> "none", Mode |-> "ip", Timeout |-> DefaultTimeout,
     Check |-> [Value |-> <<>>, RecordType |-> <<>>]]

Init ==
    /\ config = defaultConfig
    /\ plugin = NoPlugin
    /\ JobsIdle
    /\ call = NoCall
    /\ result = NoResult

\* plugin.Register("dns", create, ...): the factory runs once; it unpacks the
\* configuration cfg over the default one and builds the jobs
Create ==
    /\ plugin.state = "new"
    /\ \E cfg \in Configs :
          /\ config' = cfg
          /\ plugin' = create(cfg)
    /\ UNCHANGED <<jobvars, call, result>>

\* one DNSSvr captured for all the jobs: every job queries the endpoint of
\* the last entry
jobServerShared(j) == plugin.Jobs[Len(plugin.Jobs)]

\* newDNSMonitorJob: job j has its own copy of the DNSSvr of entry j
jobServer(j) == plugin.Jobs[j]

\* The scheduler invokes job j: the callback builds its client, execPing
\* binds the timeout and execRequest takes start and sends the question.
Tick(j) ==
    /\ plugin.state = "ok"
    /\ j \in Jobs
    /\ pc[j] = "idle"
    /\ pc' = [pc EXCEPT ![j] = "querying"]
    /\ client' = [client EXCEPT ![j] = newClient(config, jobServer(j))]
    /\ elapsed' = [elapsed EXCEPT ![j] = 0]
    /\ exch' = [exch EXCEPT ![j] = NoExchange]
    /\ event' = [event EXCEPT ![j] = EmptyEvent]
    /\ ret' = [ret EXCEPT ![j] = NilError]
    /\ path' = [path EXCEPT ![j] = <<"querying">>]
    /\ UNCHANGED <<config, plugin, call, result>>

\* Time passes while the exchange of job j is in flight.
Tock(j) ==
    /\ pc[j] = "querying"
    /\ ~ctxDone(elapsed[j], client[j].Timeout)
    /\ elapsed[j] <= MaxTimeout
    /\ elapsed' = [elapsed EXCEPT ![j] = @ + 1]
    /\ UNCHANGED <<config, plugin, pc, client, exch, event, ret, path, call, result>>

\* the invocation ends without a response: execRequest wraps the error,
\* execPing returns it and the callback adds the RTT fields it has
FailExchange(j, cause) ==
    /\ \E ping \in {execPingFailed(event[j], execRequestFailed(jobServer(j), cause))} :
          /\ event' = [event EXCEPT ![j] = pingCallbackRTT(ping.event, elapsed[j])]
          /\ ret' = [ret EXCEPT ![j] = ping.err]
    /\ pc' = [pc EXCEPT ![j] = "reporting"]
    /\ exch' = [exch EXCEPT ![j] = [err |-> cause, msg |-> <<>>]]
    /\ path' = [path EXCEPT ![j] = Append(@, "reporting")]
    /\ UNCHANGED <<config, plugin, client, elapsed, call, result>>

\* client.ExchangeContext fails before the deadline (dial refused, network
\* unreachable, TLS handshake failure).
ExchangeRefused(j) ==
    /\ pc[j] = "querying"
    /\ ~ctxDone(elapsed[j], client[j].Timeout)
    /\ FailExchange(j, "refused")

\* The deadline passes with no response: client.ExchangeContext is cancelled.
ExchangeTimeout(j) ==
    /\ pc[j] = "querying"
    /\ ctxDone(elapsed[j], client[j].Timeout)
    /\ FailExchange(j, "timeout")

\* client.ExchangeContext returns a response before the deadline.
ExchangeOk(j) ==
    /\ pc[j] = "querying"
    /\ ~ctxDone(elapsed[j], client[j].Timeout)
    /\ \E msg \in WireMsgs : exch' = [exch EXCEPT ![j] = [err |-> "nil", msg |-> msg]]
    /\ pc' = [pc EXCEPT ![j] = "decoding"]
    /\ path' = [path EXCEPT ![j] = Append(@, "decoding")]
    /\ UNCHANGED <<config, plugin, client, elapsed, event, ret, call, result>>

\* execRequest decodes the response, execPing fills the event and returns,
\* and the callback adds the RTT fields it has.
Decode(j) ==
    /\ pc[j] = "decoding"
    /\ \E req \in {execRequestDecoded(jobServer(j), exch[j].msg)} :
       \E ping \in {execPingDone(event[j], req, 0, elapsed[j])} :
          /\ event' = [event EXCEPT ![j] = pingCallbackRTT(ping.event, elapsed[j])]
          /\ ret' = [ret EXCEPT ![j] = ping.err]
    /\ pc' = [pc EXCEPT ![j] = "reporting"]
    /\ path' = [path EXCEPT ![j] = Append(@, "reporting")]
    /\ UNCHANGED <<config, plugin, client, elapsed, exch, call, result>>

\* The event and the error are handed to the publisher; the job is idle
\* again.
Report(j) ==
    /\ pc[j] = "reporting"
    /\ pc' = [pc EXCEPT ![j] = "idle"]
    /\ client' = [client EXCEPT ![j] = NoClient]
    /\ elapsed' = [elapsed EXCEPT ![j] = 0]
    /\ exch' = [exch EXCEPT ![j] = NoExchange]
    /\ event' = [event EXCEPT ![j] = EmptyEvent]
    /\ ret' = [ret EXCEPT ![j] = NilError]
    /\ path' = [path EXCEPT ![j] = <<>>]
    /\ UNCHANGED <<config, plugin, call, result>>

Next ==
    \/ Create
    \/ \E j \in JobIds : Tick(j)
    \/ \E j \in JobIds : Tock(j)
    \/ \E j \in JobIds : ExchangeRefused(j)
    \/ \E j \in JobIds : ExchangeTimeout(j)
    \/ \E j \in JobIds : ExchangeOk(j)
    \/ \E j \in JobIds : Decode(j)
    \/ \E j \in JobIds : Report(j)

Spec == Init /\ [][Next]_vars


(***************************************************************************)
(* The job model with the fairness of its environment: time passes while   *)
(* an exchange is in flight, the DNS client honours the deadline of its    *)
(* context, and a job that can take its next step takes it.                *)
(***************************************************************************)
JobStep(j) == Tock(j) \/ ExchangeTimeout(j) \/ Decode(j) \/ Report(j)

FairSpec == Spec /\ \A j \in JobIds : WF_vars(JobStep(j))

(***************************************************************************)
(* checkDNSResult on its own: one call on a bounded answer section and a   *)
(* bounded expectation.                                                    *)
(***************************************************************************)
RRs == {RR("A", <<8, 8, 8, 8>>),
        RR("A", <<8, 8, 4, 4>>),
        RR("AAAA", <<":", ":", "1">>),
        RR("CNAME", S_alias),
        RR("CNAME", S_Alias),
        RR("TXT", <<<<"s", "a", "m", "p", "l", "e">>, <<"t", "e", "x", "t">>>>),
        RR("MX", <<>>)}

ExpectedValues == {<<>>, S_8888, S_alias, S_Alias, S_sampletext, S_notexist}
ExpectedTypes == {<<>>, T_a, T_cname, T_txt, T_A}

CheckCalls ==
    [fn : {"checkDNSResult"},
     answer : SeqsUpTo(RRs, MaxAnswers),
     eValue : ExpectedValues,
     eType : ExpectedTypes]

NoJobs ==
    /\ config = defaultConfig
    /\ plugin = NoPlugin
    /\ JobsIdle

CheckInit ==
    /\ NoJobs
    /\ call \in CheckCalls
    /\ result = NoResult

CallCheckDNSResult ==
    /\ call.fn = "checkDNSResult"
    /\ ~result.done
    /\ result' = [done |-> TRUE,
                  value |-> checkDNSResult(call.answer, call.eValue, call.eType)]
    /\ UNCHANGED <<config, plugin, jobvars, call>>

CheckNext == CallCheckDNSResult

CheckSpec == CheckInit /\ [][CheckNext]_vars

(***************************************************************************)
(* The configuration validators on their own: one call of ValidateDNS on a *)
(* bounded dns_servers list, or of responseParameters.Validate on a record *)
(* type.                                                                   *)
(***************************************************************************)
ServerStrings == {S_8888, S_example, S_invalid, S_256, S_tcpurl, S_ftp,
                  S_hostabc, S_ipport, S_upper}

RecordTypes == {<<>>, T_a, T_aaaa, T_cname, T_txt, T_A, T_CNAME,
                <<"T", "x", "T">>, T_invalid, T_mx, <<"a", "a">>}

ConfigCalls ==
    [fn : {"ValidateDNS"}, servers : SeqsUpTo(ServerStrings, MaxServers)]
    \cup [fn : {"Validate"}, RecordType : RecordTypes]

ConfigInit ==
    /\ NoJobs
    /\ call \in ConfigCalls
    /\ result = NoResult

CallValidateDNS ==
    /\ call.fn = "ValidateDNS"
    /\ ~result.done
    /\ result' = [done |-> TRUE, value |-> ValidateDNS(call.servers)]
    /\ UNCHANGED <<config, plugin, jobvars, call>>

CallValidate ==
    /\ call.fn = "Validate"
    /\ ~result.done
    /\ result' = [done |-> TRUE, value |-> Validate(call.RecordType)]
    /\ UNCHANGED <<config, plugin, jobvars, call>>

ConfigNext == CallValidateDNS \/ CallValidate

ConfigSpec == ConfigInit /\ [][ConfigNext]_vars


(***************************************************************************)
(* ParseSpec: parseDNSSvr called on one address, and then on the URL of    *)
(* the endpoint it returned.  The addresses are a scheme prefix, a host    *)
(* and a port suffix, each of which may be empty.                          *)
(***************************************************************************)
P_udp == <<"u", "d", "p", ":", "/", "/">>
P_tcp == <<"t", "c", "p", ":", "/", "/">>
P_TCP == <<"T", "C", "P", ":", "/", "/">>
P_ftp == <<"f", "t", "p", ":", "/", "/">>
H_dns == <<"d", "n", "s", ".", "e", "x", "a", "m", "p", "l", "e", ".", "c", "o", "m">>
H_Google == <<"D", "n", "s", ".", "G", "o", "o", "g", "l", "e">>
H_host == <<"h", "o", "s", "t">>
Port_53 == <<":", "5", "3">>
Port_5353 == <<":", "5", "3", "5", "3">>
Port_abc == <<":", "a", "b", "c">>
Port_0 == <<":", "0">>
Port_70000 == <<":", "7", "0", "0", "0", "0">>
Port_huge == <<":", "9", "9", "9", "9", "9", "9", "9", "9", "9", "9", "9", "9", "9", "9", "9", "9", "9", "9", "9", "9">>

SchemePrefixes == {<<>>, P_udp, P_tcp, P_TCP, P_ftp}
HostParts == {<<>>, S_8888, H_dns, H_Google, H_host}
PortSuffixes == {<<>>, Port_53, Port_5353, Port_abc, Port_0, Port_70000, Port_huge}

ParseCalls ==
    {[fn |-> "parseDNSSvr", scheme |-> sc, host |-> h, port |-> p,
      addr |-> sc \o h \o p] :
        sc \in SchemePrefixes, h \in HostParts, p \in PortSuffixes}

ParseInit ==
    /\ NoJobs
    /\ call = NoCall
    /\ result = NoResult

CallParseDNSSvr ==
    /\ call = NoCall
    /\ \E c \in ParseCalls :
          /\ call' = c
          /\ result' = [done |-> TRUE, value |-> parseDNSSvr(c.addr)]
    /\ UNCHANGED <<config, plugin, jobvars>>

\* the URL of the endpoint a call returned is parsed again
CallParseAgain ==
    /\ call # NoCall
    /\ call.fn = "parseDNSSvr"
    /\ result.value.err = "nil"
    /\ call' = [fn |-> "parseAgain", scheme |-> call.scheme, host |-> call.host,
                port |-> call.port, addr |-> result.value.ds.URL,
                first |-> result.value.ds]
    /\ result' = [done |-> TRUE, value |-> parseDNSSvr(result.value.ds.URL)]
    /\ UNCHANGED <<config, plugin, jobvars>>

ParseNext == CallParseDNSSvr \/ CallParseAgain

ParseSpec == ParseInit /\ [][ParseNext]_vars

(***************************************************************************)
(* Properties of the job (Spec, FairSpec).                                 *)
(***************************************************************************)
HasRTT(e, name) == \E p \in e.rtt : p[1] = name

\* C1: in every invocation whose exchange succeeds, the error the
\* invocation returns with its record is the outcome of checkDNSResult on
\* the response and the configured check.response value and record_type, so
\* that answers violating the expectation never report success.
C1_ValidatorDecidesOutcome ==
    \A j \in JobIds :
        (pc[j] = "reporting" /\ exch[j].err = "nil")
            => ret[j] = checkDNSResult(exch[j].msg, config.Check.Value,
                                       config.Check.RecordType)

\* C2: the transport of the exchange is tcp-tls exactly when TLS is
\* configured and the scheme of the endpoint is tcp, and otherwise the plain
\* transport of the endpoint's scheme.
C2_TransportFollowsScheme ==
    \A j \in JobIds :
        pc[j] # "idle"
            => client[j].Net =
                   IF config.TLS # "none" /\ plugin.Jobs[j].Protocol = S_tcp
                   THEN S_tcptls
                   ELSE plugin.Jobs[j].Protocol

\* C3: when the exchange fails, the invocation goes from querying straight to
\* reporting, returns a could-not-connect error carrying the host and the
\* port of its endpoint, and its record has no dns.response and no
\* dns.rtt.total.
C3_FailedExchangeSkipsToReporting ==
    \A j \in JobIds :
        exch[j].err \in {"refused", "timeout"}
            => /\ pc[j] = "reporting"
               /\ path[j] = <<"querying", "reporting">>
               /\ ret[j].kind = "CouldNotConnect"
               /\ ret[j].host = plugin.Jobs[j].Address
               /\ ret[j].port = Itoa(plugin.Jobs[j].Port)
               /\ ret[j].cause = exch[j].err
               /\ event[j].response = Absent
               /\ ~HasRTT(event[j], "total")

\* a refused exchange of the endpoint 8.8.8.8, reported after a clock tick
C3_Witness ==
    \E j \in JobIds :
        /\ pc[j] = "reporting"
        /\ exch[j].err = "refused"
        /\ elapsed[j] > 0
        /\ ret[j].host = S_8888
        /\ ret[j].port = <<"5", "3">>

\* C4: every invocation terminates: an invocation that is querying reaches
\* reporting, and one whose responder did not answer within the timeout is
\* cancelled when exactly the configured timeout has elapsed and ends with a
\* could-not-connect error wrapping the timeout.
C4_InvocationTerminates ==
    \A j \in JobIds :
        (pc[j] = "querying")
            ~> (/\ pc[j] = "reporting"
                /\ exch[j].err = "timeout"
                       => /\ elapsed[j] = config.Timeout
                          /\ ret[j].kind = "CouldNotConnect"
                          /\ ret[j].cause = "timeout")

\* an invocation cancelled at the deadline of the largest timeout
C4_Witness ==
    \E j \in JobIds :
        /\ exch[j].err = "timeout"
        /\ config.Timeout = MaxTimeout
        /\ elapsed[j] = MaxTimeout
        /\ ret[j].cause = "timeout"

(***************************************************************************)
(* Properties of checkDNSResult (CheckSpec).                               *)
(***************************************************************************)
\* answer a fails the expectation
AnswerFails(a, eValue, eType) ==
    /\ rrSupported(a)
    /\ \/ eValue # <<>> /\ eValue # ToLower(rrValue(a))
       \/ eType # <<>> /\ eType # rrRecordType(a)

FailingIndexes(answer, eValue, eType) ==
    {i \in DOMAIN answer : AnswerFails(answer[i], eValue, eType)}

Least(S) == CHOOSE i \in S : \A k \in S : i <= k

\* the error the claim gives for the failing answer a
MismatchOf(a, eValue, eType) ==
    IF eValue # <<>> /\ eValue # ToLower(rrValue(a))
    THEN [kind |-> "value", actual |-> ToLower(rrValue(a)), expected |-> eValue]
    ELSE [kind |-> "type", actual |-> rrRecordType(a), expected |-> eType]

\* C5: checkDNSResult returns success iff no answer of a supported type
\* fails the expectation, and otherwise the error of the first failing answer
\* in received order: a value mismatch naming the lower-cased actual and the
\* expected value if the expected value is set and differs, otherwise a type
\* mismatch naming the actual and the expected type.
C5_FirstMismatchWins ==
    (call.fn = "checkDNSResult" /\ result.done)
        => LET failing == FailingIndexes(call.answer, call.eValue, call.eType) IN
           IF failing = {}
           THEN result.value = NilError
           ELSE result.value =
                    MismatchOf(call.answer[Least(failing)], call.eValue, call.eType)

\* two failing answers with different errors: the CNAME fails on the type,
\* the A record after it on the value
C5_Witness ==
    /\ call.fn = "checkDNSResult"
    /\ result.done
    /\ Len(call.answer) = MaxAnswers
    /\ Cardinality(FailingIndexes(call.answer, call.eValue, call.eType)) >= 2
    /\ call.answer[1].rrtype = "CNAME"
    /\ call.answer[2].rrtype = "A"
    /\ call.eValue = S_alias
    /\ call.eType = T_a
    /\ result.value.kind = "type"

\* C6: on an empty answer section checkDNSResult returns success for every
\* expectation with the value, the type or both set.
C6_EmptyAnswerSucceeds ==
    (/\ call.fn = "checkDNSResult"
     /\ result.done
     /\ call.answer = <<>>
     /\ (call.eValue # <<>> \/ call.eType # <<>>))
        => result.value = NilError

\* the case "No matching record" of TestCheckDNSResult
C6_Witness ==
    /\ call.fn = "checkDNSResult"
    /\ result.done
    /\ call.answer = <<>>
    /\ call.eValue = S_notexist
    /\ call.eType = T_a
    /\ result.value = NilError

(***************************************************************************)
(* Properties of the configuration validators (ConfigSpec).                *)
(***************************************************************************)
\* the host of a dns_servers entry is neither an IP literal nor a hostname
\* (an entry that does not parse has no host)
HostInvalid(server) ==
    /\ ~ParseIPOK(parseDNSSvr(server).ds.Address)
    /\ ~isValidHostname(parseDNSSvr(server).ds.Address)

\* a dns_servers entry with a problem: it does not parse, or its host is
\* invalid
EntryInvalid(server) ==
    parseDNSSvr(server).err # "nil" \/ HostInvalid(server)

ReportedEntries(e) == IF e = NilError THEN {} ELSE e.entries

\* C7: ValidateDNS aggregates: the error it returns reports a problem for
\* every invalid entry of the list, not only for the first.
C7_ReportsEveryInvalidEntry ==
    (call.fn = "ValidateDNS" /\ result.done)
        => ReportedEntries(result.value)
               = {i \in DOMAIN call.servers : EntryInvalid(call.servers[i])}

\* C8: ValidateDNS returns an error iff the host of at least one entry is
\* neither a valid IP literal nor a valid hostname; "example.com" and
\* "8.8.8.8" alone are accepted, "invalid..hostname" and "256.256.256.256"
\* alone are rejected.
C8_RejectsInvalidHosts ==
    (call.fn = "ValidateDNS" /\ result.done)
        => /\ (result.value # NilError)
                  <=> \E i \in DOMAIN call.servers : HostInvalid(call.servers[i])
           /\ call.servers \in {<<S_example>>, <<S_8888>>} => result.value = NilError
           /\ call.servers \in {<<S_invalid>>, <<S_256>>} => result.value # NilError

\* strings.EqualFold on the letters of the model
EqualFold(a, b) ==
    /\ Len(a) = Len(b)
    /\ \A i \in DOMAIN a : LowerChar(a[i]) = LowerChar(b[i])

SupportedTypes == {T_a, T_aaaa, T_cname, T_txt}

\* C9 (as stated): Validate accepts the record type exactly when it is unset
\* (empty) or equals, case-insensitively, one of a, aaaa, cname, txt.
C9_UnsetIsAccepted ==
    (call.fn = "Validate" /\ result.done)
        => ((result.value = NilError)
               <=> \/ call.RecordType = <<>>
                   \/ \E t \in SupportedTypes : EqualFold(call.RecordType, t))

\* C9 (amended): Validate accepts the record type exactly when it equals,
\* case-insensitively, one of a, aaaa, cname, txt; an unset (empty) record
\* type is rejected as an unknown record type.
C9_AcceptsExactlySupportedTypes ==
    (call.fn = "Validate" /\ result.done)
        => /\ (result.value = NilError)
                  <=> \E t \in SupportedTypes : EqualFold(call.RecordType, t)
           /\ call.RecordType = <<>> => result.value.kind = "unknown record type"

\* an upper-case record type accepted
C9_Witness ==
    /\ call.fn = "Validate"
    /\ result.done
    /\ call.RecordType = T_CNAME
    /\ result.value = NilError

\* C10 (as stated): Validate returns no error for a, aaaa, cname and txt and
\* an error for every other record type string, including the empty string.
C10_ErrorForEveryOtherString ==
    (call.fn = "Validate" /\ result.done)
        => ((result.value = NilError) <=> call.RecordType \in SupportedTypes)

\* C10 (amended): Validate returns no error for a, aaaa, cname and txt in
\* any letter case, and an error for the empty string and for every string
\* that is not one of those four up to letter case.
C10_ErrorUnlessSupported ==
    (call.fn = "Validate" /\ result.done)
        => /\ ToLower(call.RecordType) \in SupportedTypes => result.value = NilError
           /\ call.RecordType = <<>> => result.value # NilError
           /\ ToLower(call.RecordType) \notin SupportedTypes
                  => result.value # NilError

\* the case "Empty record type" of TestResponseParametersValidate
C10_Witness ==
    /\ call.fn = "Validate"
    /\ result.done
    /\ call.RecordType = <<>>
    /\ result.value # NilError

(***************************************************************************)
(* Properties of parseDNSSvr (ParseSpec).                                  *)
(***************************************************************************)
\* the number a port suffix denotes, -1 when it denotes none
PortNumberOf(port) ==
    CASE port = Port_53 -> 53
      [] port = Port_5353 -> 5353
      [] port = Port_0 -> 0
      [] port = Port_70000 -> 70000
      [] OTHER -> -1

\* the port suffix is absent or a port number
PortOmittedOrValid(port) == port = <<>> \/ PortNumberOf(port) \in 1..65535

\* the scheme a prefix names, lower-cased: the prefix without "://"
SchemeNamed(prefix) == ToLower(SubSeq(prefix, 1, Len(prefix) - 3))

ParseCalled == call # NoCall /\ call.fn = "parseDNSSvr" /\ result.done

\* C11: an address host or host:port without a scheme, with a valid host
\* and a port number, parses to udp, the lower-cased host and the given
\* port, or port 53 when the port is omitted ("8.8.8.8" gives udp, 8.8.8.8,
\* 53); with the scheme udp or tcp the scheme and the port are kept
\* ("tcp://dns.example.com:5353" gives tcp, dns.example.com, 5353).
C11_SchemeAndPortDefaults ==
    (/\ ParseCalled
     /\ call.scheme \in {<<>>, P_udp, P_tcp, P_TCP}
     /\ call.host # <<>>
     /\ PortOmittedOrValid(call.port))
        => /\ result.value.err = "nil"
           /\ result.value.ds.Protocol =
                  IF call.scheme = <<>> THEN S_udp ELSE SchemeNamed(call.scheme)
           /\ result.value.ds.Address = ToLower(call.host)
           /\ result.value.ds.Port =
                  IF call.port = <<>> THEN 53 ELSE PortNumberOf(call.port)
           /\ call.addr = S_8888
                  => /\ result.value.ds.Protocol = S_udp
                     /\ result.value.ds.Address = S_8888
                     /\ result.value.ds.Port = 53
           /\ call.addr = S_tcpurl
                  => /\ result.value.ds.Protocol = S_tcp
                     /\ result.value.ds.Address = H_dns
                     /\ result.value.ds.Port = 5353

\* a host in capitals with a port and no scheme
C11_Witness ==
    /\ ParseCalled
    /\ call.scheme = <<>>
    /\ call.host = H_Google
    /\ call.port = Port_5353
    /\ result.value.err = "nil"
    /\ result.value.ds.Protocol = S_udp
    /\ result.value.ds.Port = 5353

\* C12: an address with an explicit port that is not a number, with or
\* without a scheme, is a parse error: no endpoint is returned.
C12_NonNumericPortIsAnError ==
    (ParseCalled /\ call.port = Port_abc) => result.value.err # "nil"

\* C13: an address with an explicit scheme other than udp and tcp followed
\* by an authority is an error: no endpoint is returned.
C13_OnlyUdpAndTcp ==
    (ParseCalled /\ call.scheme = P_ftp /\ call.host \o call.port # <<>>)
        => result.value.err # "nil"

\* C14: parsing is idempotent: the URL of an endpoint that parseDNSSvr
\* returned parses again, to the same protocol, host, port and URL.
C14_ParsingIsIdempotent ==
    (call # NoCall /\ call.fn = "parseAgain" /\ result.done)
        => /\ result.value.err = "nil"
           /\ result.value.ds.Protocol = call.first.Protocol
           /\ result.value.ds.Address = call.first.Address
           /\ result.value.ds.Port = call.first.Port
           /\ result.value.ds.URL = call.first.URL

\* the URL with the synthesized udp:// prefix parsed again
C14_Witness ==
    /\ call # NoCall
    /\ call.fn = "parseAgain"
    /\ call.scheme = <<>>
    /\ call.first.URL = UdpPrefix \o H_Google \o Port_5353
    /\ result.done
    /\ result.value.ds.Address = ToLower(H_Google)
    /\ result.value.ds.URL = UdpPrefix \o H_Google \o Port_5353

\* C17: every endpoint a successful parseDNSSvr returns has the protocol
\* udp or tcp, a host that is not empty and a port in 1..65535.
C17_EndpointIsWellFormed ==
    (call # NoCall /\ result.done /\ result.value.err = "nil")
        => /\ result.value.ds.Protocol \in {S_udp, S_tcp}
           /\ result.value.ds.Address # <<>>
           /\ result.value.ds.Port \in 1..65535

(***************************************************************************)
(* Properties of the factory and of the records of the jobs (Spec).        *)
(***************************************************************************)
\* create has run on a configuration with an entry that fails validation,
\* TLS settings that do not load or a mode no job can be made for
CreateMustFail ==
    \/ \E i \in DOMAIN config.DNSServers : EntryInvalid(config.DNSServers[i])
    \/ config.TLS = "invalid"
    \/ config.Mode = "unusable"

\* C15: create is all-or-nothing: it returns an error and no jobs whenever
\* an entry fails validation or TLS loading or job construction fails, and
\* otherwise one job per entry of dns_servers, in the order of the
\* configuration, with Endpoints the number of entries.
C15_CreateIsAllOrNothing ==
    plugin.state # "new"
        => IF CreateMustFail
           THEN /\ plugin.state = "error"
                /\ plugin.err # NilError
                /\ plugin.Jobs = <<>>
                /\ plugin.Endpoints = 0
           ELSE /\ plugin.state = "ok"
                /\ Len(plugin.Jobs) = Len(config.DNSServers)
                /\ plugin.Endpoints = Len(config.DNSServers)
                /\ \A i \in DOMAIN config.DNSServers :
                       plugin.Jobs[i] = parseDNSSvr(config.DNSServers[i]).ds

\* two different endpoints configured: two jobs, in that order
C15_Witness ==
    /\ plugin.state = "ok"
    /\ config.DNSServers = <<S_upper, S_8888>>
    /\ Len(plugin.Jobs) = MaxServers
    /\ plugin.Jobs[1].Protocol = S_tcp
    /\ plugin.Jobs[2].Address = S_8888

\* the endpoint of entry j of the configuration
OwnEndpoint(j) == parseDNSSvr(config.DNSServers[j]).ds

\* the state of the invocation of job j
Invocation(j) == <<pc[j], client[j], elapsed[j], exch[j], event[j], ret[j], path[j]>>

\* the record of job j comes from its own endpoint and its own exchange
OwnRecord(j) ==
    /\ exch[j].err = "nil"
           => /\ event[j].response.server = OwnEndpoint(j).URL
              /\ event[j].response.answers = answerFields(decodeAnswers(exch[j].msg))
              /\ event[j].rtt = {<<"total", elapsed[j]>>}
              /\ ret[j] = NilError
    /\ exch[j].err # "nil"
           => /\ ret[j].host = OwnEndpoint(j).Address
              /\ ret[j].port = Itoa(OwnEndpoint(j).Port)
              /\ ret[j].cause = exch[j].err

\* C16: under every interleaving of the jobs, the record of each job has
\* only the server, answers, timing and error of its own endpoint and its
\* own exchange, and a step of one invocation changes nothing of another.
C16_InvocationsAreIsolated ==
    /\ [](\A j \in JobIds : pc[j] = "reporting" => OwnRecord(j))
    /\ [][\A j, k \in JobIds :
              (j # k /\ Invocation(j)' # Invocation(j))
                  => Invocation(k)' = Invocation(k)]_vars

\* two jobs of different endpoints reporting at once, one a response and
\* the other a refused exchange
C16_Witness ==
    /\ config.DNSServers = <<S_8888, S_upper>>
    /\ pc[1] = "reporting"
    /\ pc[2] = "reporting"
    /\ exch[1].err = "nil"
    /\ exch[1].msg # <<>>
    /\ exch[2].err = "refused"
    /\ event[1].response.server = UdpPrefix \o S_8888
    /\ ret[2].host = ToLower(H_Google)

\* the tag of a record type
TypeTag(rrtype) ==
    CASE rrtype = "A" -> T_a
      [] rrtype = "AAAA" -> T_aaaa
      [] rrtype = "CNAME" -> T_cname
      [] rrtype = "TXT" -> T_txt

\* C18: on a successful exchange the answers decoded are the records of
\* type A, AAAA, CNAME and TXT of the response, in their order, the others
\* dropped, each with its value lower-cased and the tag of its type, and
\* the server is the URL string of the endpoint queried.
C18_DecodesSupportedAnswersInOrder ==
    \A j \in JobIds :
        (pc[j] = "reporting" /\ exch[j].err = "nil")
            => LET kept == SelectSeq(exch[j].msg, rrSupported)
                   answers == event[j].response.answers
               IN /\ Len(answers) = Len(kept)
                  /\ \A i \in DOMAIN kept :
                         /\ kept[i].rrtype \in {"A", "AAAA", "CNAME", "TXT"}
                         /\ answers[i].value = ToLower(rrValue(kept[i]))
                         /\ answers[i].record_type = TypeTag(kept[i].rrtype)
                         /\ answers[i].name = ToLower(kept[i].name)
                  /\ event[j].response.server = plugin.Jobs[j].URL
                  /\ ret[j] = NilError

\* a response with a record of another type between two supported ones
C18_Witness ==
    \E j \in JobIds :
        /\ pc[j] = "reporting"
        /\ exch[j].err = "nil"
        /\ Len(exch[j].msg) = 3
        /\ exch[j].msg[2].rrtype = "MX"
        /\ Len(event[j].response.answers) = 2
        /\ event[j].response.answers[1].record_type = T_txt
        /\ event[j].response.answers[2].value = S_8844

\* C19: the sub-phase RTT fields (write_request, response_header, validate,
\* content) are never in a record, with no value at all, and dns.rtt.total
\* is in the record iff the exchange succeeded, the end not before the
\* start.
C19_OnlyCapturedRTTs ==
    \A j \in JobIds :
        /\ \A name \in {"write_request", "response_header", "validate", "content"} :
               ~HasRTT(event[j], name)
        /\ \A p \in event[j].rtt : p[1] = "total" /\ p[2] >= 0
        /\ pc[j] = "reporting" => (HasRTT(event[j], "total") <=> exch[j].err = "nil")
        /\ pc[j] # "reporting" => event[j].rtt = {}

\* a response reported after a clock tick: the record has the total only
C19_Witness ==
    \E j \in JobIds :
        /\ pc[j] = "reporting"
        /\ exch[j].err = "nil"
        /\ elapsed[j] > 0
        /\ event[j].rtt = {<<"total", elapsed[j]>>}

\* C20: when an invocation used tcp-tls and its exchange succeeded, the
\* record handed to the publisher has the TLS session metadata.
C20_TLSMetadataReported ==
    \A j \in JobIds :
        (pc[j] = "reporting" /\ client[j].Net = S_tcptls /\ exch[j].err = "nil")
            => event[j].tls # Absent

(***************************************************************************)
(* The record type assertion, from the configuration to the check of the  *)
(* response (CheckSpec).                                                   *)
(***************************************************************************)
\* a non-empty answer section whose records all have the record type t
\* names, whatever its letter case
AnswerOfType(answer, t) ==
    /\ answer # <<>>
    /\ \A i \in DOMAIN answer :
           rrSupported(answer[i]) /\ rrRecordType(answer[i]) = ToLower(t)

\* C21: for every record type that responseParameters.Validate accepts, in
\* any letter case, checkDNSResult with that expected type and no expected
\* value returns success on an answer of that record type.
C21_ValidateAndCheckAgree ==
    (/\ call.fn = "checkDNSResult"
     /\ result.done
     /\ call.eValue = <<>>
     /\ Validate(call.eType) = NilError
     /\ AnswerOfType(call.answer, call.eType))
        => result.value = NilError

(***************************************************************************)
(* The parse error create discards (Spec).                                 *)
(***************************************************************************)
\* create went past config.ValidateDNS() and the loading of the TLS
\* settings, into the loop that makes the jobs
ReachedJobConstruction ==
    \/ plugin.state = "ok"
    \/ plugin.state = "error" /\ plugin.err.kind = "job"

\* C22: the parse error create discards when it makes the jobs is never
\* non-nil: every entry of dns_servers that reaches job construction was
\* parsed without error by ValidateDNS, parsing it again gives the endpoint
\* the job is made from, and that endpoint has a URL and a host.
C22_DiscardedParseErrorIsNil ==
    ReachedJobConstruction
        => /\ ValidateDNS(config.DNSServers) = NilError
           /\ \A i \in DOMAIN config.DNSServers :
                  With(parseDNSSvr(config.DNSServers[i]), LAMBDA r :
                      /\ r.err = "nil"
                      /\ r.ds.U # NoURL
                      /\ r.ds.Address # <<>>
                      /\ plugin.state = "ok" => plugin.Jobs[i] = r.ds)
           /\ \A i \in DOMAIN plugin.Jobs :
                  /\ plugin.Jobs[i] # ZeroSvr
                  /\ plugin.Jobs[i].U # NoURL
                  /\ plugin.Jobs[i].Address # <<>>

\* jobs made for a bare address and for a URL: both endpoints are filled in
C22_Witness ==
    /\ plugin.state = "ok"
    /\ config.DNSServers = <<S_8888, S_upper>>
    /\ plugin.Jobs[1].URL = UdpPrefix \o S_8888
    /\ plugin.Jobs[1].Port = DefaultPort
    /\ plugin.Jobs[2].U.Scheme = S_tcp
    /\ plugin.Jobs[2].Address # <<>>

=============================================================================
